---- MODULE Spec2Model ----
(***************************************************************************)
(* GFF3 reading and writing (src/io/gff.rs): the Record data model with    *)
(* its typed accessors, Reader/Records::next and Writer::write, layered on *)
(* the csv crate's tab-delimited reader and writer.                        *)
(*                                                                         *)
(* Text is a sequence of one-character strings.  A u64 is three decimal    *)
(* limbs <<h, m, l>> in base 10^8, which holds every value up to           *)
(* u64::MAX exactly, so that overflow of a parse is an outcome of the      *)
(* model.  Option<T> is a sequence of length at most one.                  *)
(***************************************************************************)
EXTENDS Integers, Sequences, FiniteSets, TLC

VARIABLES
    held,      \* the Record the caller owns (Option<Record>)
    ret,       \* what the last call of score() or strand() returned
    sink,      \* the bytes the Writer has emitted into its sink
    written,   \* the Records handed to Writer::write so far, in order
    input,     \* the bytes the Reader was constructed over
    reader,    \* the csv reader: unread bytes, first record length, errored
    items,     \* the items Records::next has returned so far, in order
    panicked   \* TRUE once a call has panicked (unwrap / expect)

vars == <<held, ret, sink, written, input, reader, items, panicked>>

---------------------------------------------------------------------------
(* Bytes *)

TAB == "\t"
LF == "\n"
QUOTE == "\""
SEMI == ";"
EQ == "="

DigitChars == <<"0", "1", "2", "3", "4", "5", "6", "7", "8", "9">>

IsDigit(c) == \E i \in 1..10 : DigitChars[i] = c

DigitValue(c) == (CHOOSE i \in 1..10 : DigitChars[i] = c) - 1

Some(v) == <<v>>

None == <<>>

---------------------------------------------------------------------------
(* u64: parse::<u64>() and Display *)

LimbBase == 10000 * 10000

U64_MAX == <<1844, 67440737, 9551615>>

U64(n) == <<0, 0, n>>

\* a <= b on limb triples
U64Leq(a, b) ==
    \/ a[1] < b[1]
    \/ a[1] = b[1] /\ a[2] < b[2]
    \/ a[1] = b[1] /\ a[2] = b[2] /\ a[3] <= b[3]

\* result.checked_mul(10) then checked_add(d): None on overflow
CheckedMul10Add(u, d) ==
    LET l == u[3] * 10 + d
        m == u[2] * 10 + (l \div LimbBase)
        h == u[1] * 10 + (m \div LimbBase)
        r == <<h, m % LimbBase, l % LimbBase>>
    IN  IF U64Leq(r, U64_MAX) THEN Some(r) ELSE None

RECURSIVE ParseDigits(_, _)
\* the digit loop of from_str_radix, acc the value so far
ParseDigits(s, acc) ==
    IF s = <<>> THEN Some(acc)
    ELSE IF ~IsDigit(Head(s)) THEN None
    ELSE LET nxt == CheckedMul10Add(acc, DigitValue(Head(s)))
         IN  IF nxt = None THEN None ELSE ParseDigits(Tail(s), nxt[1])

\* str::parse::<u64>().ok(): empty text, a lone sign, a non-digit and an
\* overflow are errors; one leading "+" is accepted, "-" is not
ParseU64(s) ==
    IF s = <<>> THEN None
    ELSE IF Len(s) = 1 /\ Head(s) \in {"+", "-"} THEN None
    ELSE IF Head(s) = "+" THEN ParseDigits(Tail(s), U64(0))
    ELSE ParseDigits(s, U64(0))

RECURSIVE Digits(_)
\* the decimal digits of n, most significant first, at least one
Digits(n) ==
    IF n < 10 THEN <<DigitChars[n + 1]>>
    ELSE Digits(n \div 10) \o <<DigitChars[(n % 10) + 1]>>

RECURSIVE ZeroPad(_, _)
ZeroPad(s, w) == IF Len(s) >= w THEN s ELSE ZeroPad(<<"0">> \o s, w)

\* Display for u64: canonical decimal, no sign, no leading zeros
DisplayU64(u) ==
    IF u[1] > 0 THEN Digits(u[1]) \o ZeroPad(Digits(u[2]), 8) \o ZeroPad(Digits(u[3]), 8)
    ELSE IF u[2] > 0 THEN Digits(u[2]) \o ZeroPad(Digits(u[3]), 8)
    ELSE Digits(u[3])

---------------------------------------------------------------------------
(* Record *)

EmptyMap == [k \in {} |-> <<>>]

Record_new ==
    [seqname |-> <<>>, source |-> <<>>, feature_type |-> <<>>,
     start |-> U64(0), end |-> U64(0),
     score |-> <<".">>, strand |-> <<".">>, frame |-> <<>>,
     attributes |-> EmptyMap]

Record_score_default(r) ==
    IF r.score = <<".">> THEN None
    ELSE IF ParseU64(r.score) = None THEN Some(U64(0)) ELSE ParseU64(r.score)

\* Record::score
Record_score(r) ==
    IF r.score = <<".">> THEN None ELSE ParseU64(r.score)

Record_strand_prefix(r) ==
    IF r.strand # <<>> /\ Head(r.strand) = "+" THEN Some("Forward")
    ELSE IF r.strand # <<>> /\ Head(r.strand) = "-" THEN Some("Reverse")
    ELSE None

\* Record::strand
Record_strand(r) ==
    IF r.strand = <<"+">> THEN Some("Forward")
    ELSE IF r.strand = <<"-">> THEN Some("Reverse")
    ELSE None

NoRet == [fn |-> "none", self |-> Record_new, score |-> None, strand |-> None]

---------------------------------------------------------------------------
(* The csv crate's writer, as Writer::new configures it: delimiter TAB,     *)
(* flexible, fields quoted when necessary, records ended by LF.             *)

Contains(s, c) == \E i \in 1..Len(s) : s[i] = c

RECURSIVE DoubleQuotes(_)
\* every quote of s written twice
DoubleQuotes(s) ==
    IF s = <<>> THEN <<>>
    ELSE IF Head(s) = QUOTE THEN <<QUOTE, QUOTE>> \o DoubleQuotes(Tail(s))
    ELSE <<Head(s)>> \o DoubleQuotes(Tail(s))

NeedsQuotes(f, delim) == Contains(f, delim) \/ Contains(f, QUOTE) \/ Contains(f, LF)

EncodeField(f, delim) ==
    IF NeedsQuotes(f, delim) THEN <<QUOTE>> \o DoubleQuotes(f) \o <<QUOTE>> ELSE f

RECURSIVE JoinWith(_, _)
\* the texts of a sequence joined by sep (slice::join)
JoinWith(ts, sep) ==
    IF ts = <<>> THEN <<>>
    ELSE IF Len(ts) = 1 THEN ts[1]
    ELSE ts[1] \o <<sep>> \o JoinWith(Tail(ts), sep)

EncodeRowAlwaysQuoted(row, delim) ==
    JoinWith([i \in 1..Len(row) |-> <<QUOTE>> \o DoubleQuotes(row[i]) \o <<QUOTE>>], delim)
    \o <<LF>>

\* csv::Writer::encode of one row
EncodeRow(row, delim) ==
    JoinWith([i \in 1..Len(row) |-> EncodeField(row[i], delim)], delim) \o <<LF>>

---------------------------------------------------------------------------
(* The csv crate's reader: fields split on the delimiter, records on the    *)
(* terminator, empty records skipped, a field that starts with a quote read *)
(* up to its closing quote with "" for a quote.                             *)

RECURSIVE ParseRow(_, _, _, _, _, _)
\* the parser's state machine from byte sequence bs; the row read (<<>> at
\* the end of the data) and the bytes left
ParseRow(bs, st, field, fields, delim, term) ==
    IF bs = <<>> THEN
        IF st = "StartRecord" THEN [row |-> <<>>, rest |-> <<>>]
        ELSE [row |-> Append(fields, field), rest |-> <<>>]
    ELSE LET c == Head(bs)
             t == Tail(bs)
         IN  CASE st = "StartRecord" /\ c = term ->
                    ParseRow(t, "StartRecord", <<>>, <<>>, delim, term)
               [] st \in {"StartRecord", "StartField"} /\ c # term ->
                    IF c = QUOTE THEN ParseRow(t, "InQuotedField", <<>>, fields, delim, term)
                    ELSE IF c = delim THEN ParseRow(t, "StartField", <<>>, Append(fields, <<>>), delim, term)
                    ELSE ParseRow(t, "InField", <<c>>, fields, delim, term)
               [] st = "StartField" /\ c = term ->
                    [row |-> Append(fields, <<>>), rest |-> t]
               [] st \in {"InField", "InQuotedFieldQuote"} /\ c = delim ->
                    ParseRow(t, "StartField", <<>>, Append(fields, field), delim, term)
               [] st \in {"InField", "InQuotedFieldQuote"} /\ c = term ->
                    [row |-> Append(fields, field), rest |-> t]
               [] st = "InField" /\ c # delim /\ c # term ->
                    ParseRow(t, "InField", Append(field, c), fields, delim, term)
               [] st = "InQuotedField" ->
                    IF c = QUOTE THEN ParseRow(t, "InQuotedFieldQuote", field, fields, delim, term)
                    ELSE ParseRow(t, "InQuotedField", Append(field, c), fields, delim, term)
               [] st = "InQuotedFieldQuote" /\ c # delim /\ c # term ->
                    IF c = QUOTE THEN ParseRow(t, "InQuotedField", Append(field, c), fields, delim, term)
                    ELSE ParseRow(t, "InField", Append(field, c), fields, delim, term)

ReadRow(bs, delim, term) == ParseRow(bs, "StartRecord", <<>>, <<>>, delim, term)

MapInsertKeepFirst(map, k, v) ==
    [x \in (DOMAIN map) \cup {k} |-> IF x \in DOMAIN map THEN map[x] ELSE v]

\* HashMap::insert
MapInsert(map, k, v) ==
    [x \in (DOMAIN map) \cup {k} |-> IF x = k THEN v ELSE map[x]]

RECURSIVE CollectPairs(_, _, _)
\* decode().collect::<csv::Result<HashMap<String, String>>>() over the
\* attributes text: rows of (String, String), delimiter "=", terminator ";",
\* not flexible; the first error ends the collection
CollectPairs(bs, first_len, map) ==
    LET p == ReadRow(bs, EQ, SEMI)
    IN  IF p.row = <<>> THEN [ok |-> TRUE, map |-> map]
        ELSE IF first_len # 0 /\ Len(p.row) # first_len THEN [ok |-> FALSE, map |-> map]
        ELSE IF Len(p.row) < 2 THEN [ok |-> FALSE, map |-> map]
        ELSE CollectPairs(p.rest, Len(p.row), MapInsert(map, p.row[1], p.row[2]))

DecodeAttributes(text) == CollectPairs(text, 0, EmptyMap)

\* decoding a row into (String, String, String, u64, u64, String, String,
\* String, String): an error when a field is missing or a u64 does not
\* parse (no input of the model has a row of more than nine fields)
DecodeTuple(row) ==
    IF Len(row) < 9 THEN None
    ELSE IF ParseU64(row[4]) = None \/ ParseU64(row[5]) = None THEN None
    ELSE Some([seqname |-> row[1], source |-> row[2], feature_type |-> row[3],
               start |-> ParseU64(row[4])[1], end |-> ParseU64(row[5])[1],
               score |-> row[6], strand |-> row[7], frame |-> row[8],
               attributes |-> row[9]])

ItemOk(r) == [tag |-> "Ok", rec |-> Some(r)]

ItemErr == [tag |-> "Err", rec |-> None]

ItemNone == [tag |-> "None", rec |-> None]

ClosedReader == [open |-> FALSE, buf |-> <<>>, first_len |-> 0, errored |-> FALSE]

Reader_new_headers(bytes) ==
    [open |-> TRUE, buf |-> ReadRow(bytes, TAB, LF).rest, first_len |-> 0, errored |-> FALSE]

\* Reader::new: the first row is data, not a header
Reader_new(bytes) == [open |-> TRUE, buf |-> bytes, first_len |-> 0, errored |-> FALSE]

\* One call of Records::next on reader rd: the item it returns, the reader
\* after it, and whether the call panics (unwrap on a failed attribute
\* decode) instead of returning
NextOutcome(rd) ==
    LET p == ReadRow(rd.buf, TAB, LF)
        t == DecodeTuple(p.row)
        a == DecodeAttributes(t[1].attributes)
    IN  IF rd.errored THEN [item |-> ItemNone, rd |-> rd, panic |-> FALSE]
        ELSE IF p.row = <<>> THEN
            [item |-> ItemNone, rd |-> [rd EXCEPT !.buf = <<>>], panic |-> FALSE]
        ELSE IF rd.first_len # 0 /\ Len(p.row) # rd.first_len THEN
            [item |-> ItemErr, rd |-> [rd EXCEPT !.buf = p.rest, !.errored = TRUE],
             panic |-> FALSE]
        ELSE LET rd2 == [rd EXCEPT !.buf = p.rest, !.first_len = Len(p.row)]
             IN  IF t = None THEN [item |-> ItemErr, rd |-> rd2, panic |-> FALSE]
                 ELSE IF ~a.ok THEN [item |-> ItemErr, rd |-> rd2, panic |-> TRUE]
                 ELSE [item |-> ItemOk([t[1] EXCEPT !.attributes = a.map]),
                       rd |-> rd2, panic |-> FALSE]

---------------------------------------------------------------------------
(* Writer::write *)

\* the orders in which a HashMap with key set S may be iterated
Orders(S) ==
    {o \in [1..Cardinality(S) -> S] : \A i, j \in 1..Cardinality(S) : o[i] = o[j] => i = j}

\* format!("{}={}", a, b)
FormatPair(a, b) == a \o <<EQ>> \o b

\* the attributes column Writer::write builds, the map iterated in `order`
AttributesText(attrs, order) ==
    IF DOMAIN attrs # {} THEN
        JoinWith([i \in 1..Len(order) |-> FormatPair(order[i], attrs[order[i]])], SEMI)
    ELSE <<>>

RowTypedScore(r, order) ==
    <<r.seqname, r.source, r.feature_type, DisplayU64(r.start), DisplayU64(r.end),
      IF Record_score(r) = None THEN <<".">> ELSE DisplayU64(Record_score(r)[1]),
      r.strand, r.frame, AttributesText(r.attributes, order)>>

\* the row Writer::write hands to the csv writer
RowOf(r, order) ==
    <<r.seqname, r.source, r.feature_type, DisplayU64(r.start), DisplayU64(r.end),
      r.score, r.strand, r.frame, AttributesText(r.attributes, order)>>

---------------------------------------------------------------------------
(* Actions *)

Alive == ~panicked

Holding == Alive /\ held # None

Set(field, v) ==
    /\ Holding
    /\ held' = Some([held[1] EXCEPT ![field] = v])
    /\ UNCHANGED <<ret, sink, written, input, reader, items, panicked>>

\* *r.seqname_mut() = t
seqname_mut(t) == Set("seqname", t)

\* *r.source_mut() = t
source_mut(t) == Set("source", t)

\* *r.feature_type_mut() = t
feature_type_mut(t) == Set("feature_type", t)

\* *r.start_mut() = u
start_mut(u) == Set("start", u)

\* *r.end_mut() = u
end_mut(u) == Set("end", u)

score_mut_frame(t) ==
    /\ Holding
    /\ held' = Some([held[1] EXCEPT !.score = t, !.frame = t])
    /\ UNCHANGED <<ret, sink, written, input, reader, items, panicked>>

\* *r.score_mut() = t
score_mut(t) == Set("score", t)

\* *r.strand_mut() = t
strand_mut(t) == Set("strand", t)

\* r.attributes_mut().insert(k, v)
attributes_mut_insert(k, v) == Set("attributes", MapInsert(held[1].attributes, k, v))

\* r.score()
CallScore ==
    /\ Holding
    /\ ret' = [fn |-> "score", self |-> held[1], score |-> Record_score(held[1]),
               strand |-> None]
    /\ UNCHANGED <<held, sink, written, input, reader, items, panicked>>

\* r.strand()
CallStrand ==
    /\ Holding
    /\ ret' = [fn |-> "strand", self |-> held[1], score |-> None,
               strand |-> Record_strand(held[1])]
    /\ UNCHANGED <<held, sink, written, input, reader, items, panicked>>

\* writer.write(record): the record is moved into the call
Writer_write ==
    /\ Holding
    /\ \E order \in Orders(DOMAIN held[1].attributes) :
           sink' = sink \o EncodeRow(RowOf(held[1], order), TAB)
    /\ written' = Append(written, held[1])
    /\ held' = None
    /\ UNCHANGED <<ret, input, reader, items, panicked>>

\* Reader::new over the bytes the Writer produced
ReadBack ==
    /\ Alive
    /\ ~reader.open
    /\ written # <<>>
    /\ input' = sink
    /\ reader' = Reader_new(sink)
    /\ UNCHANGED <<held, ret, sink, written, items, panicked>>

\* the caller's loop ends at the first None
Ended == IF items = <<>> THEN FALSE ELSE items[Len(items)].tag = "None"

Iterating == Alive /\ reader.open /\ ~Ended

\* records.next(), the caller keeping the record of an Ok item
Records_next ==
    /\ Iterating
    /\ LET o == NextOutcome(reader)
       IN  /\ reader' = o.rd
           /\ panicked' = o.panic
           /\ items' = IF o.panic THEN items ELSE Append(items, o.item)
           /\ held' = IF o.panic THEN held ELSE o.item.rec
    /\ UNCHANGED <<ret, sink, written, input>>

\* test_writer's loop, first half: r = records.next(); r.ok().expect(..)
Copy_next ==
    /\ Iterating
    /\ held = None
    /\ LET o == NextOutcome(reader)
       IN  /\ reader' = o.rd
           /\ panicked' = (o.panic \/ o.item.tag = "Err")
           /\ items' = IF o.panic THEN items ELSE Append(items, o.item)
           /\ held' = IF o.panic THEN held ELSE o.item.rec
    /\ UNCHANGED <<ret, sink, written, input>>

---------------------------------------------------------------------------
(* Inputs *)

MaxLines == 2

MaxText == <<"1","8","4","4","6","7","4","4","0","7","3","7","0","9","5","5","1","6","1","5">>

OverText == <<"1","8","4","4","6","7","4","4","0","7","3","7","0","9","5","5","1","6","1","6">>

ScoreTexts ==
    {<<".">>, <<"5", "0">>, <<"a", "b", "c">>, <<>>, <<"-", "5">>, <<"+", "5">>,
     <<"0", "0", "7">>, <<"5", "a">>, <<"+">>, <<".", ".">>, <<"0">>,
     MaxText, OverText, MaxText \o <<"0">>}

StrandTexts ==
    {<<"+">>, <<"-">>, <<".">>, <<"?">>, <<>>, <<"+", "+">>, <<"-", "+">>, <<"+", "-">>}

NameTexts == {<<"P">>, <<"P", TAB>>, <<QUOTE>>}

AttrKeys == {<<"I">>, <<"N">>}

AttrValues == {<<"x">>, <<>>, <<"x", SEMI, "y">>}

\* the columns of a line joined by TAB; no column holds TAB, LF or a quote
Line(cols) == JoinWith(cols, TAB)

Cols8 == <<<<"P">>, <<"U">>, <<"C">>, <<"1">>, <<"1">>, <<".">>, <<".">>, <<".">>>>

GoodLines ==
    {Line(Cols8 \o <<<<>>>>),
     Line(<<<<"Q">>, <<"U">>, <<"M", " ", "m">>, <<"2">>, <<"1", "7", "6">>, <<"5", "0">>,
            <<"+">>, <<".">>, <<>>>>),
     Line(Cols8 \o <<<<"N", EQ, "r", SEMI, "I", EQ, "t">>>>),
     Line(Cols8 \o <<<<"I", EQ, "t", SEMI, "N", EQ, "r">>>>),
     Line(Cols8 \o <<<<"N", EQ, "r", SEMI, "N", EQ, "t">>>>),
     Line(Cols8 \o <<<<"I", EQ>>>>),
     Line(<<<<>>, <<>>, <<>>, <<"0", "0", "7">>, MaxText, <<>>, <<>>, <<>>, <<>>>>)}

BadLines ==
    {Line(<<<<"P">>, <<"U">>, <<"C">>, <<"x">>, <<"1">>, <<".">>, <<".">>, <<".">>, <<>>>>),
     Line(<<<<"P">>, <<"U">>, <<"C">>, <<"1">>, OverText, <<".">>, <<".">>, <<".">>, <<>>>>),
     Line(<<<<"P">>, <<"U">>, <<"C">>, <<>>, <<"1">>, <<".">>, <<".">>, <<".">>, <<>>>>),
     Line(Cols8),
     Line(<<<<"P">>>>),
     Line(Cols8 \o <<<<"N">>>>),
     Line(Cols8 \o <<<<"N", EQ, "r", SEMI, "I">>>>)}

LineSet == GoodLines \cup BadLines

SeqsUpTo(S, n) == UNION {[1..k -> S] : k \in 0..n}

\* the lines each followed by LF, the last one only when `nl`
Stream(ls, nl) ==
    IF ls = <<>> THEN <<>>
    ELSE IF nl THEN JoinWith(ls, LF) \o <<LF>>
    ELSE JoinWith(ls, LF)

---------------------------------------------------------------------------
(* Specifications *)

\* a caller that holds Record::new()
InitNew ==
    /\ held = Some(Record_new)
    /\ ret = NoRet
    /\ sink = <<>>
    /\ written = <<>>
    /\ input = <<>>
    /\ reader = ClosedReader
    /\ items = <<>>
    /\ panicked = FALSE

\* a caller that holds a Reader over a stream of lines
InitReader ==
    /\ held = None
    /\ ret = NoRet
    /\ sink = <<>>
    /\ written = <<>>
    /\ \E ls \in SeqsUpTo(LineSet, MaxLines), nl \in BOOLEAN : input = Stream(ls, nl)
    /\ reader = Reader_new(input)
    /\ items = <<>>
    /\ panicked = FALSE

NextAccess ==
    \/ \E t \in ScoreTexts : score_mut(t)
    \/ \E t \in StrandTexts : strand_mut(t)
    \/ CallScore
    \/ CallStrand

SpecAccess == InitNew /\ [][NextAccess]_vars

Building == written = <<>>

NextBuild ==
    \/ Building /\ \E t \in NameTexts : seqname_mut(t)
    \/ Building /\ source_mut(<<"U">>)
    \/ Building /\ feature_type_mut(<<"C">>)
    \/ Building /\ start_mut(U64(7))
    \/ Building /\ end_mut(U64_MAX)
    \/ Building /\ \E t \in {<<"5", "0">>, <<"a", "b", "c">>} : score_mut(t)
    \/ Building /\ strand_mut(<<"+">>)
    \/ Building /\ \E k \in AttrKeys, v \in AttrValues : attributes_mut_insert(k, v)
    \/ Building /\ Writer_write
    \/ ReadBack
    \/ Records_next

SpecBuild == InitNew /\ [][NextBuild]_vars

NextReader == Records_next

SpecReader == InitReader /\ [][NextReader]_vars

NextCopy ==
    \/ Copy_next
    \/ Writer_write

SpecCopy == InitReader /\ [][NextCopy]_vars

Spec == SpecBuild

---------------------------------------------------------------------------
(* What the claims speak of, read off the text without the parser *)

AllDigits(t) == \A i \in 1..Len(t) : IsDigit(t[i])

RECURSIVE StripZeros(_)
StripZeros(t) == IF Len(t) > 1 /\ Head(t) = "0" THEN StripZeros(Tail(t)) ELSE t

Unsigned(t) == IF t # <<>> /\ Head(t) = "+" THEN Tail(t) ELSE t

\* s <= t digit by digit, for digit texts of one length
LexLeq(s, t) ==
    \/ s = t
    \/ \E i \in 1..Len(s) :
           /\ DigitValue(s[i]) < DigitValue(t[i])
           /\ \A j \in 1..(i - 1) : s[j] = t[j]

\* t is a decimal numeral of a value up to 2^64 - 1
IsNumber(t) ==
    /\ t # <<>>
    /\ AllDigits(t)
    /\ \/ Len(StripZeros(t)) < Len(MaxText)
       \/ Len(StripZeros(t)) = Len(MaxText) /\ LexLeq(StripZeros(t), MaxText)

\* u is the value the numeral t denotes
Denotes(t, u) == DisplayU64(u) = StripZeros(t)

RECURSIVE SplitOn(_, _)
\* the pieces of s between occurrences of sep
SplitOn(s, sep) ==
    IF ~Contains(s, sep) THEN <<s>>
    ELSE LET i == CHOOSE i \in 1..Len(s) : s[i] = sep /\ \A j \in 1..(i - 1) : s[j] # sep
         IN  <<SubSeq(s, 1, i - 1)>> \o SplitOn(SubSeq(s, i + 1, Len(s)), sep)

InputLines == SelectSeq(SplitOn(input, LF), LAMBDA l : l # <<>>)

ColsOf(l) == SplitOn(l, TAB)

Segments(a) == IF a = <<>> THEN <<>> ELSE SplitOn(a, SEMI)

\* the (key, value) pairs of an attributes column of well-formed segments
PairsOf(a) == [i \in 1..Len(Segments(a)) |-> SplitOn(Segments(a)[i], EQ)]

Structural(l) ==
    /\ Len(ColsOf(l)) = 9
    /\ IsNumber(ColsOf(l)[4])
    /\ IsNumber(ColsOf(l)[5])

GoodAttributes(a) == \A i \in 1..Len(Segments(a)) : Len(SplitOn(Segments(a)[i], EQ)) = 2

WellFormed(l) == Structural(l) /\ GoodAttributes(ColsOf(l)[9])

DistinctKeys(a) ==
    \A i, j \in 1..Len(PairsOf(a)) : PairsOf(a)[i][1] = PairsOf(a)[j][1] => i = j

\* r holds the first eight columns of line l as read
EightColumnsOf(r, l) ==
    LET c == ColsOf(l)
    IN  /\ r.seqname = c[1] /\ r.source = c[2] /\ r.feature_type = c[3]
        /\ Denotes(c[4], r.start) /\ Denotes(c[5], r.end)
        /\ r.score = c[6] /\ r.strand = c[7] /\ r.frame = c[8]

\* m has the keys of the pairs and at each key the value of its last pair
LastWins(m, pairs) ==
    /\ DOMAIN m = {pairs[i][1] : i \in 1..Len(pairs)}
    /\ \A i \in 1..Len(pairs) :
           (\A j \in (i + 1)..Len(pairs) : pairs[j][1] # pairs[i][1]) => m[pairs[i][1]] = pairs[i][2]

Entries(m) == {<<k, m[k]>> : k \in DOMAIN m}

---------------------------------------------------------------------------
(* Record accessors, SpecAccess *)

\* C8: score() returns none when the raw score text is exactly ".", the
\* value the text denotes when the text is a numeral of an unsigned 64-bit
\* integer, and none for every other text; the call leaves the record as it
\* was and does not panic.
C8_ScoreDecoding ==
    [][(ret' # ret /\ ret'.fn = "score") =>
          LET t == held[1].score
              v == ret'.score
          IN  /\ held' = held /\ ~panicked' /\ ret'.self = held[1]
              /\ (t = <<".">> => v = None)
              /\ (t # <<".">> /\ IsNumber(Unsigned(t)) =>
                      v # None /\ Denotes(Unsigned(t), v[1]))
              /\ (~IsNumber(Unsigned(t)) => v = None)
              /\ (t = <<"5", "0">> => v = Some(U64(50)))
              /\ (t \in {<<"a", "b", "c">>, <<>>, <<"-", "5">>, OverText} => v = None)]_vars

C8_Witness ==
    /\ ret.fn = "score"
    /\ ret.self.score = MaxText
    /\ ret.score = Some(U64_MAX)
    /\ held = Some(ret.self)

\* C9: strand() returns Forward exactly for the raw text "+", Reverse exactly
\* for "-", none for every other text; the call leaves the record as it was
\* and does not panic.
C9_StrandDecoding ==
    [][(ret' # ret /\ ret'.fn = "strand") =>
          LET t == held[1].strand
              v == ret'.strand
          IN  /\ held' = held /\ ~panicked' /\ ret'.self = held[1]
              /\ (v = Some("Forward") <=> t = <<"+">>)
              /\ (v = Some("Reverse") <=> t = <<"-">>)
              /\ (v = None <=> t \notin {<<"+">>, <<"-">>})]_vars

C9_Witness ==
    /\ ret.fn = "strand"
    /\ ret.self.strand = <<"+", "+">>
    /\ ret.strand = None
    /\ held = Some(ret.self)

---------------------------------------------------------------------------
(* Building and writing a record, SpecBuild *)

Fields ==
    {"seqname", "source", "feature_type", "start", "end", "score", "strand", "frame",
     "attributes"}

Plain(t) == ~Contains(t, TAB) /\ ~Contains(t, QUOTE) /\ ~Contains(t, LF)

RECURSIVE PairsText(_, _)
\* key=value of each key of `order` in turn, ";" between two pairs
PairsText(attrs, order) ==
    IF order = <<>> THEN <<>>
    ELSE order[1] \o <<EQ>> \o attrs[order[1]]
         \o (IF Len(order) > 1 THEN <<SEMI>> \o PairsText(attrs, Tail(order)) ELSE <<>>)

\* C10: a record from Record::new has an empty frame and keeps it under the
\* mutable accessors, each of which changes its own field only; the row the
\* Writer emits for such a record has an empty eighth column.
C10_FrameStaysEmpty ==
    [][/\ (Building /\ held # None => held[1].frame = <<>>)
       /\ (Building /\ held # None /\ held' # None =>
              /\ held'[1].frame = <<>>
              /\ Cardinality({f \in Fields : held[1][f] # held'[1][f]}) <= 1)
       /\ (Building /\ written' # written =>
              LET p == ReadRow(sink', TAB, LF)
              IN  Len(p.row) = 9 /\ p.row[8] = <<>> /\ p.rest = <<>>)]_vars

C10_Witness ==
    /\ Len(written) = 1
    /\ written[1].seqname = <<"P">>
    /\ written[1].score = <<"5", "0">>
    /\ written[1].strand = <<"+">>
    /\ written[1].start = U64(7)
    /\ DOMAIN written[1].attributes = AttrKeys
    /\ written[1].frame = <<>>

\* C4: a write emits one row of nine fields, in the order seqname, source,
\* feature_type, start, end, raw score text, raw strand text, frame,
\* attributes; the ninth is empty for an empty mapping and otherwise the
\* key=value pairs, one per key, joined by ";"; when no field needs quoting
\* the bytes are the nine fields separated by eight tabs and ended by LF.
C4_WriteEmitsNineFields ==
    written # <<>> =>
        LET r == written[1]
            p == ReadRow(sink, TAB, LF)
        IN  /\ Len(written) = 1
            /\ sink[Len(sink)] = LF
            /\ Len(p.row) = 9 /\ p.rest = <<>>
            /\ p.row[1] = r.seqname /\ p.row[2] = r.source /\ p.row[3] = r.feature_type
            /\ AllDigits(p.row[4]) /\ Denotes(p.row[4], r.start)
            /\ AllDigits(p.row[5]) /\ Denotes(p.row[5], r.end)
            /\ p.row[6] = r.score /\ p.row[7] = r.strand /\ p.row[8] = r.frame
            /\ (DOMAIN r.attributes = {} => p.row[9] = <<>>)
            /\ \E order \in Orders(DOMAIN r.attributes) :
                   p.row[9] = PairsText(r.attributes, order)
            /\ ((\A i \in 1..9 : Plain(p.row[i])) =>
                    SplitOn(SubSeq(sink, 1, Len(sink) - 1), TAB) = p.row)

C4_Witness ==
    /\ Len(written) = 1
    /\ written[1].score = <<"a", "b", "c">>
    /\ written[1].seqname = <<"P", TAB>>
    /\ written[1].source = <<>>
    /\ DOMAIN written[1].attributes = AttrKeys
    /\ Contains(sink, SEMI)

\* C1: writing any record and decoding the bytes written yields exactly one
\* record, equal to the original in all nine fields.
C1_RoundTrip ==
    (reader.open /\ (panicked \/ items # <<>>)) =>
        /\ ~panicked
        /\ items[1] = ItemOk(written[1])
        /\ Len(items) <= 2
        /\ (Len(items) = 2 => items[2] = ItemNone)

---------------------------------------------------------------------------
(* Reading a stream of lines, SpecReader *)

NLines == Len(InputLines)

\* the items that answer an input line (the None that ends the sequence does not)
Answered == {i \in 1..Len(items) : items[i].tag # "None"}

\* C2: a line without nine columns or with a non-numeric start or end gives
\* an error item for that line only, without a panic, and every well-formed
\* line after it is still yielded as a record.
C2_MalformedLineIsLocal ==
    /\ ((\A i \in 1..NLines : GoodAttributes(InputLines[i])) => ~panicked)
    /\ \A i \in Answered :
           /\ i <= NLines
           /\ (~Structural(InputLines[i]) => items[i].tag = "Err")
           /\ (WellFormed(InputLines[i]) => items[i].tag = "Ok")
    /\ (Ended => Len(items) = NLines + 1)

\* C3: a line whose ninth column holds a segment without "=" gives a decode
\* failure as the item returned for that line.
C3_AttributeErrorIsReturned ==
    /\ ~panicked
    /\ \A i \in Answered :
           (i <= NLines /\ Structural(InputLines[i]) /\ ~GoodAttributes(ColsOf(InputLines[i])[9]))
               => items[i].tag = "Err"

C6_RecordsInOrder ==
    (\A i \in 1..NLines : WellFormed(InputLines[i])) =>
        /\ ~panicked
        /\ Len(items) <= NLines + 1
        /\ (Ended <=> Len(items) = NLines + 1)
        /\ \A i \in 1..Len(items) :
               IF i <= NLines
               THEN /\ items[i].tag = "Ok"
                    /\ EightColumnsOf(items[i].rec[1], InputLines[i])
                    /\ LastWins(items[i].rec[1].attributes, PairsOf(ColsOf(InputLines[i])[9]))
               ELSE items[i] = ItemNone

C6_Witness ==
    /\ NLines = 2
    /\ WellFormed(InputLines[1]) /\ WellFormed(InputLines[2])
    /\ InputLines[1] # InputLines[2]
    /\ Len(items) = 3
    /\ items[1].tag = "Ok" /\ items[2].tag = "Ok" /\ items[3] = ItemNone
    /\ items[1].rec[1].start # items[2].rec[1].start

---------------------------------------------------------------------------
(* Decoding and writing each record at once, SpecCopy *)

EmptyAttributes(l) == ColsOf(l)[9] = <<>>

\* the numeral is written as Display writes the value
Canonical(t) == StripZeros(t) = t

EndsWithLF == input # <<>> /\ input[Len(input)] = LF

\* C7 as stated: over well-formed lines with an empty attributes column,
\* each ended by a newline, the bytes written once the input is exhausted
\* are the bytes of the input.
C7_CopyIsIdentity ==
    ((\A i \in 1..NLines : WellFormed(InputLines[i]) /\ EmptyAttributes(InputLines[i]))
        /\ EndsWithLF /\ Ended /\ held = None) => sink = input

\* C7 amended: the same, for lines whose start and end columns are written
\* without leading zeros; after k records are written the sink holds the
\* first k lines of the input.
C7_CanonicalCopyIsIdentity ==
    ((\A i \in 1..NLines :
          /\ WellFormed(InputLines[i]) /\ EmptyAttributes(InputLines[i])
          /\ Canonical(ColsOf(InputLines[i])[4]) /\ Canonical(ColsOf(InputLines[i])[5]))
        /\ EndsWithLF) =>
        /\ ~panicked
        /\ Len(written) <= NLines
        /\ Len(sink) <= Len(input)
        /\ sink = SubSeq(input, 1, Len(sink))
        /\ Len(SelectSeq(sink, LAMBDA c : c = LF)) = Len(written)
        /\ (Ended /\ held = None => sink = input /\ Len(written) = NLines)

C7_Witness ==
    /\ NLines = 2
    /\ InputLines[1] # InputLines[2]
    /\ \A i \in 1..2 : WellFormed(InputLines[i]) /\ EmptyAttributes(InputLines[i])
    /\ Ended
    /\ Len(written) = 2
    /\ sink = input

====
